---- MODULE Spec2Model ----
(***************************************************************************)
(* A model of jaysbot's poll handler (server.go): every request to         *)
(* /poll_mlb runs one cycle of mlb_handler, which fetches the MLB master   *)
(* scoreboard, finds the Toronto game, compares its alert with the latest  *)
(* alert kept in the datastore (kind "jays"), and, when the brief text has *)
(* changed, writes the alert and posts it to Slack.                        *)
(*                                                                         *)
(* A handler instance takes one step per external call (the GET, the       *)
(* datastore query, the datastore Put, the Slack POST); the code between   *)
(* two calls touches only locals and is part of the step.  App Engine may  *)
(* run several requests at once, so Spec interleaves the handlers; SeqSpec *)
(* is the same program with at most one request in flight, and HistSpec    *)
(* is SeqSpec started on any history earlier requests can have left.       *)
(*                                                                         *)
(* The datastore is modelled at its interface: strongly consistent, Put    *)
(* atomic, ids unique.  time.Now() is one strictly increasing clock.       *)
(***************************************************************************)
EXTENDS Integers, Sequences, FiniteSets, TLC

\* ---------------------------------------------------------------- bounds
\* Requests served one after the other in a behaviour of SeqSpec.
MaxCycles == 3
\* Requests served, overlapping, in a behaviour of Spec.
MaxRequests == 2
\* Entities the datastore holds at the start of a behaviour of HistSpec.
MaxEntries == 2
\* Longest game list of a scoreboard.
MaxGames == 2
\* Largest run count, of either sign, the color is computed for.
MaxRuns == 3

\* ------------------------------------------------------- program constants
StatusOK == 200
StatusInternalServerError == 500

\* ---------------------------------------------------------------- inputs
Handlers == {"h1", "h2"}
Cities == {"Toronto", "Boston"}
Texts == {"t1", "t2"}
Briefs == {"b1", "b2"}
Runs == {2, 5}

\* type Linescore: the runs of the home and of the away team.
Linescore == [Home : Runs, Away : Runs]

\* The zero time.Time, the Updated of an alert decoded from the feed
\* (the field is json:"-").
ZeroTime == 0

\* type Alert, as decoded from the feed.
FeedAlert == [Text : Texts, BriefText : Briefs, Updated : {ZeroTime}]

\* type Game.
Game == [HomeTeamCity : Cities, AwayTeamCity : Cities,
         Alerts : FeedAlert, Runs : Linescore]

\* type MLBResponse: parsed.Data.Games.Game, a list of games.
MLBResponse == UNION {[1..n -> Game] : n \in 0..MaxGames}

NoGame == [HomeTeamCity |-> "", AwayTeamCity |-> "",
           Alerts |-> [Text |-> "", BriefText |-> "", Updated |-> ZeroTime],
           Runs |-> [Home |-> 0, Away |-> 0]]

\* ------------------------------------------------------- pure functions
\* A loop that leaves jaysGame at the first game when none is Toronto's.
RECURSIVE FindFromOrFirst(_, _)
FindFromOrFirst(games, index) ==
    IF index > Len(games) THEN (IF Len(games) > 0 THEN 1 ELSE 0)
    ELSE IF games[index].HomeTeamCity = "Toronto" THEN index
    ELSE IF games[index].AwayTeamCity = "Toronto" THEN index
    ELSE FindFromOrFirst(games, index + 1)

\* The loop without its breaks: the last Toronto game wins.
RECURSIVE FindFromNoBreak(_, _)
FindFromNoBreak(games, index) ==
    IF index > Len(games) THEN 0
    ELSE LET later == FindFromNoBreak(games, index + 1) IN
         IF later # 0 THEN later
         ELSE IF games[index].HomeTeamCity = "Toronto" THEN index
         ELSE IF games[index].AwayTeamCity = "Toronto" THEN index
         ELSE 0

\* The loop that finds the jays game: the index of the first game with
\* Toronto as home or away city, 0 when there is none (jaysGame == nil).
RECURSIVE FindFrom(_, _)
FindFrom(games, index) ==
    IF index > Len(games) THEN 0
    ELSE IF games[index].HomeTeamCity = "Toronto" THEN index
    ELSE IF games[index].AwayTeamCity = "Toronto" THEN index
    ELSE FindFrom(games, index + 1)

\* jaysGame and areJaysHome after the loop.
FindJays(games) ==
    LET index == FindFrom(games, 1) IN
    IF index = 0
    THEN [found |-> FALSE, game |-> NoGame, home |-> FALSE]
    ELSE [found |-> TRUE, game |-> games[index],
          home |-> games[index].HomeTeamCity = "Toronto"]

\* What a successful fetch and decode can leave in jaysGame, areJaysHome.
Extracted == {FindJays(games) : games \in MLBResponse}

\* Order("Updated"): the oldest entity first.
FirstOldest(s, ks) ==
    CHOOSE k \in ks : \A j \in ks :
        \/ s[k].Updated < s[j].Updated
        \/ s[k].Updated = s[j].Updated /\ k <= j

\* Order("-Updated"): the key that comes first among ks, the greatest
\* Updated, the smaller key on a tie.
First(s, ks) ==
    CHOOSE k \in ks : \A j \in ks :
        \/ s[k].Updated > s[j].Updated
        \/ s[k].Updated = s[j].Updated /\ k <= j

\* datastore.NewQuery("jays").Order("-Updated"), GetAll: the keys in order.
RECURSIVE OrderKeys(_, _)
OrderKeys(s, ks) ==
    IF ks = {} THEN <<>>
    ELSE LET k == First(s, ks) IN <<k>> \o OrderKeys(s, ks \ {k})

QueryKeys(s) == OrderKeys(s, DOMAIN s)

\* A query of a kind that has no entities: it never returns an alert.
QueryAlertsOfNoKind(s) == <<>>

\* The entities GetAll appends to alerts, parallel to the keys.
QueryAlerts(s) == LET ks == QueryKeys(s) IN [i \in 1..Len(ks) |-> s[ks[i]]]

\* A key that is not generated: the key of an entity there is, if any.
NewKeyReused(s) == IF DOMAIN s = {} THEN 1 ELSE CHOOSE k \in DOMAIN s : TRUE

\* datastore.NewIncompleteKey: Put completes it with an id no entity has.
NewIncompleteKey(s) == Cardinality(DOMAIN s) + 1

\* datastore.Put(c, key, alert): the store with the entity under key.
Put(s, key, alert) ==
    [k \in DOMAIN s \cup {key} |-> IF k = key THEN alert ELSE s[k]]

\* The alert keeps the zero time.
StampNot(game, now) == game

\* jaysGame.Alerts.Updated = time.Now()
Stamp(game, now) == [game EXCEPT !.Alerts.Updated = now]

\* latest.Text != jaysGame.Alerts.Text
IsDifferentText(latest, alert) == latest.Text # alert.Text

\* latest != jaysGame.Alerts
IsDifferentAlert(latest, alert) == latest # alert

\* latest.BriefText != jaysGame.Alerts.BriefText
IsDifferent(latest, alert) == latest.BriefText # alert.BriefText

\* The color with the away branch a copy of the home branch.
ColorAsHome(home, runs) ==
    IF runs.Home > runs.Away THEN "#00cc00"
    ELSE IF runs.Away > runs.Home THEN "#e50000"
    ELSE "#808080"

\* The color of the attachment.
Color(home, runs) ==
    IF home
    THEN IF runs.Home > runs.Away THEN "#00cc00"
         ELSE IF runs.Away > runs.Home THEN "#e50000"
         ELSE "#808080"
    ELSE IF runs.Home > runs.Away THEN "#e50000"
         ELSE IF runs.Away > runs.Home THEN "#00cc00"
         ELSE "#808080"

\* ----------------------------------------------------------------- state
VARIABLES
    trigger,      \* what sends the requests: one at a time or not, how many
    store,        \* the datastore's entities of kind "jays": key -> Alert
    clock,        \* the time the next time.Now() returns
    posts,        \* the messages POSTed to the Slack webhook, in order
    cycles,       \* the requests accepted so far
    pc,           \* per handler: the call it is about to make
    jaysGame,     \* per handler: *jaysGame
    areJaysHome,  \* per handler: areJaysHome
    alerts,       \* per handler: alerts, as GetAll filled it
    keys,         \* per handler: keys, as GetAll returned them
    status,       \* per handler: the status of its last response, 0 while open
    io            \* per handler: the external calls of its last request

vars == <<trigger, store, clock, posts, cycles, pc, jaysGame, areJaysHome, alerts,
          keys, status, io>>

\* The handler's locals at entry.
NoLocals(h) ==
    /\ jaysGame' = [jaysGame EXCEPT ![h] = NoGame]
    /\ areJaysHome' = [areJaysHome EXCEPT ![h] = FALSE]
    /\ alerts' = [alerts EXCEPT ![h] = <<>>]
    /\ keys' = [keys EXCEPT ![h] = <<>>]

SameLocals == UNCHANGED <<jaysGame, areJaysHome, alerts, keys>>

\* The application as deployed: nothing posted, no request accepted.
Idle ==
    /\ posts = <<>>
    /\ cycles = 0
    /\ pc = [h \in Handlers |-> "idle"]
    /\ jaysGame = [h \in Handlers |-> NoGame]
    /\ areJaysHome = [h \in Handlers |-> FALSE]
    /\ alerts = [h \in Handlers |-> <<>>]
    /\ keys = [h \in Handlers |-> <<>>]
    /\ status = [h \in Handlers |-> 0]
    /\ io = [h \in Handlers |-> <<>>]

\* One external call of a request: what was called, how it ended, and the
\* alert it carried (the jays alert of the scoreboard, the latest entity of
\* the query, the entity of the Put, the message of the POST).
Call(op, res, alert) ==
    [op |-> op, res |-> res, Text |-> alert.Text, BriefText |-> alert.BriefText]

NoAlert == [Text |-> "", BriefText |-> ""]

\* log.Criticalf, http.Error(w, err.Error(), 500), return.
Fail(h, calls) ==
    /\ pc' = [pc EXCEPT ![h] = "done"]
    /\ status' = [status EXCEPT ![h] = StatusInternalServerError]
    /\ io' = [io EXCEPT ![h] = calls]
    /\ NoLocals(h)

\* The handler returns without writing a response: the server answers 200.
Return(h, calls) ==
    /\ pc' = [pc EXCEPT ![h] = "done"]
    /\ status' = [status EXCEPT ![h] = StatusOK]
    /\ io' = [io EXCEPT ![h] = calls]
    /\ NoLocals(h)

\* The handler goes on to its next call.
Goto(h, label, calls) ==
    /\ pc' = [pc EXCEPT ![h] = label]
    /\ status' = [status EXCEPT ![h] = 0]
    /\ io' = [io EXCEPT ![h] = calls]

\* No request is in flight but h's.
Alone(h) == \A g \in Handlers \ {h} : pc[g] \in {"idle", "done"}

\* A request arrives at a handler that serves none, when the trigger sends
\* one: a serial trigger waits for the response to its last request.
Accept(h) ==
    /\ pc[h] \in {"idle", "done"}
    /\ cycles < trigger.requests
    /\ trigger.serial => Alone(h)
    /\ cycles' = cycles + 1
    /\ UNCHANGED trigger

\* time.LoadLocation fails: no call is made.
LoadLocationFails(h) ==
    /\ Accept(h)
    /\ Fail(h, <<>>)
    /\ UNCHANGED <<store, clock, posts>>

\* client.Get fails.
GetFails(h) ==
    /\ Accept(h)
    /\ Fail(h, <<Call("get", "error", NoAlert)>>)
    /\ UNCHANGED <<store, clock, posts>>

\* The body does not decode and the error is dropped: the handler finds no
\* game in the zero MLBResponse and returns.
DecodeFailsReturns(h) ==
    /\ Accept(h)
    /\ Return(h, <<Call("get", "undecodable", NoAlert)>>)
    /\ UNCHANGED <<store, clock, posts>>

\* client.Get answers, the body does not decode into MLBResponse.
DecodeFails(h) ==
    /\ Accept(h)
    /\ Fail(h, <<Call("get", "undecodable", NoAlert)>>)
    /\ UNCHANGED <<store, clock, posts>>

\* The scoreboard decodes and holds no Toronto game: jaysGame == nil.
NoJaysGame(h) ==
    /\ Accept(h)
    /\ \E r \in Extracted : ~r.found
    /\ Return(h, <<Call("get", "ok", NoAlert)>>)
    /\ UNCHANGED <<store, clock, posts>>

\* The scoreboard decodes and holds a Toronto game.
FoundJaysGame(h) ==
    /\ Accept(h)
    /\ \E r \in Extracted :
        /\ r.found
        /\ jaysGame' = [jaysGame EXCEPT ![h] = r.game]
        /\ areJaysHome' = [areJaysHome EXCEPT ![h] = r.home]
        /\ Goto(h, "query", <<Call("get", "ok", r.game.Alerts)>>)
    /\ alerts' = [alerts EXCEPT ![h] = <<>>]
    /\ keys' = [keys EXCEPT ![h] = <<>>]
    /\ UNCHANGED <<store, clock, posts>>

\* q.GetAll fails and the handler goes on with the empty alerts.
QueryFailsGoesOn(h) ==
    /\ pc[h] = "query"
    /\ Goto(h, "insert", Append(io[h], Call("query", "error", NoAlert)))
    /\ jaysGame' = [jaysGame EXCEPT ![h] = Stamp(@, clock)]
    /\ clock' = clock + 1
    /\ UNCHANGED <<trigger, store, posts, cycles, areJaysHome, alerts, keys>>

\* q.GetAll fails.
QueryFails(h) ==
    /\ pc[h] = "query"
    /\ Fail(h, Append(io[h], Call("query", "error", NoAlert)))
    /\ UNCHANGED <<trigger, store, clock, posts, cycles>>

\* q.GetAll succeeds; jaysGame.Alerts.Updated = time.Now(); then the branch
\* on len(alerts) and on the brief text decides on a Put.
QuerySucceeds(h) ==
    LET got == QueryAlerts(store)
        game == Stamp(jaysGame[h], clock)
        calls == Append(io[h], Call("query", "ok",
                                    IF Len(got) = 0 THEN NoAlert ELSE got[1]))
    IN
    /\ pc[h] = "query"
    /\ clock' = clock + 1
    /\ IF Len(got) = 0 \/ IsDifferent(got[1], game.Alerts)
       THEN /\ Goto(h, IF Len(got) = 0 THEN "insert" ELSE "overwrite", calls)
            /\ alerts' = [alerts EXCEPT ![h] = got]
            /\ keys' = [keys EXCEPT ![h] = QueryKeys(store)]
            /\ jaysGame' = [jaysGame EXCEPT ![h] = game]
            /\ UNCHANGED areJaysHome
       ELSE Return(h, calls)
    /\ UNCHANGED <<trigger, store, posts, cycles>>

\* The key of the Put with the last key of the query for the first.
PutKeyOldest(h) ==
    IF pc[h] = "insert" THEN NewIncompleteKey(store) ELSE keys[h][Len(keys[h])]

\* The key of the Put: a new one when alerts is empty, else keys[0].
PutKey(h) == IF pc[h] = "insert" THEN NewIncompleteKey(store) ELSE keys[h][1]

\* datastore.Put fails and the handler does not return.
PutFailsGoesOn(h) ==
    /\ pc[h] \in {"insert", "overwrite"}
    /\ Goto(h, "send", Append(io[h], Call("put", "error", jaysGame[h].Alerts)))
    /\ SameLocals
    /\ UNCHANGED <<trigger, store, clock, posts, cycles>>

\* datastore.Put fails and the handler tries it again.
PutFailsRetries(h) ==
    /\ pc[h] \in {"insert", "overwrite"}
    /\ Goto(h, pc[h], Append(io[h], Call("put", "error", jaysGame[h].Alerts)))
    /\ SameLocals
    /\ UNCHANGED <<trigger, store, clock, posts, cycles>>

\* datastore.Put fails: nothing is written.
PutFails(h) ==
    /\ pc[h] \in {"insert", "overwrite"}
    /\ Fail(h, Append(io[h], Call("put", "error", jaysGame[h].Alerts)))
    /\ UNCHANGED <<trigger, store, clock, posts, cycles>>

\* notify = true with nothing written to the datastore.
PutSucceedsNoWrite(h) ==
    /\ pc[h] \in {"insert", "overwrite"}
    /\ Goto(h, "send", Append(io[h], Call("put", "ok", jaysGame[h].Alerts)))
    /\ SameLocals
    /\ UNCHANGED <<trigger, store, clock, posts, cycles>>

\* datastore.Put succeeds: notify = true.
PutSucceeds(h) ==
    /\ pc[h] \in {"insert", "overwrite"}
    /\ store' = Put(store, PutKey(h), jaysGame[h].Alerts)
    /\ Goto(h, "send", Append(io[h], Call("put", "ok", jaysGame[h].Alerts)))
    /\ SameLocals
    /\ UNCHANGED <<trigger, clock, posts, cycles>>

\* An attachment with the text of the alert for its brief text.
AttachmentOfText(h) ==
    [Text |-> jaysGame[h].Alerts.Text,
     Color |-> Color(areJaysHome[h], jaysGame[h].Runs)]

\* The attachment send_to_slack posts.
Attachment(h) ==
    [Text |-> jaysGame[h].Alerts.BriefText,
     Color |-> Color(areJaysHome[h], jaysGame[h].Runs)]

\* The POST as the log keeps it: the message, and the color for the brief.
PostCall(h, res) ==
    [op |-> "post", res |-> res,
     Text |-> Attachment(h).Text, BriefText |-> Attachment(h).Color]

\* client.Post returns an error and the handler deletes what it wrote.
PostFailsRollsBack(h) ==
    /\ pc[h] = "send"
    /\ posts' = Append(posts, Attachment(h).Text)
    /\ store' = [k \in {j \in DOMAIN store : store[j] # jaysGame[h].Alerts}
                    |-> store[k]]
    /\ Fail(h, Append(io[h], PostCall(h, "error")))
    /\ UNCHANGED <<trigger, clock, cycles>>

\* client.Post returns an error.
PostFails(h) ==
    /\ pc[h] = "send"
    /\ posts' = Append(posts, Attachment(h).Text)
    /\ Fail(h, Append(io[h], PostCall(h, "error")))
    /\ UNCHANGED <<trigger, store, clock, cycles>>

\* client.Post returns a response, of any status: err is nil, the response
\* is dropped and the handler returns.
PostAnswered(h) ==
    /\ pc[h] = "send"
    /\ posts' = Append(posts, Attachment(h).Text)
    /\ \E res \in {"2xx", "non2xx"} : Return(h, Append(io[h], PostCall(h, res)))
    /\ UNCHANGED <<trigger, store, clock, cycles>>

Step(h) ==
    \/ LoadLocationFails(h)
    \/ GetFails(h)
    \/ DecodeFails(h)
    \/ NoJaysGame(h)
    \/ FoundJaysGame(h)
    \/ QueryFails(h)
    \/ QuerySucceeds(h)
    \/ PutFails(h)
    \/ PutSucceeds(h)
    \/ PostFails(h)
    \/ PostAnswered(h)

Next == \E h \in Handlers : Step(h)

\* Requests overlap freely.
Init ==
    /\ trigger = [serial |-> FALSE, requests |-> MaxRequests]
    /\ store = <<>>
    /\ clock = 1
    /\ Idle

Spec == Init /\ [][Next]_vars

\* The trigger keeps at most one request in flight.
SeqInit ==
    /\ trigger = [serial |-> TRUE, requests |-> MaxCycles]
    /\ store = <<>>
    /\ clock = 1
    /\ Idle

SeqSpec == SeqInit /\ [][Next]_vars

\* type Alert, as an entity of the datastore.
StoredAlert(n) == [Text : Texts, BriefText : Briefs, Updated : 1..n]

\* The histories requests can have left in the datastore: up to MaxEntries
\* entities (overlapping requests that all read an empty history insert
\* one each), no two written at the same time, under the keys 1..n in any
\* order of time.
Histories ==
    UNION {{s \in [1..n -> StoredAlert(n)] :
               \A j, k \in 1..n : j # k => s[j].Updated # s[k].Updated} :
           n \in 0..MaxEntries}

\* One request served on any history.  A request of a serial trigger
\* leaves a history of this kind again, so what holds of this request
\* holds of every request of a serial trigger.
HistInit ==
    /\ trigger = [serial |-> TRUE, requests |-> 1]
    /\ store \in Histories
    /\ clock = Cardinality(DOMAIN store) + 1
    /\ Idle

HistSpec == HistInit /\ [][Next]_vars

\* The application as deployed, under either kind of trigger: one that
\* waits for the response to its last request, or one that does not.
RaceInit ==
    /\ trigger \in [serial : BOOLEAN, requests : {MaxRequests}]
    /\ store = <<>>
    /\ clock = 1
    /\ Idle

RaceSpec == RaceInit /\ [][Next]_vars

\* The call a request waits for returns: the query, the Put or the POST
\* ends, with or without an error, and the handler runs on to its next
\* call or to its return.
Returns(h) ==
    \/ QueryFails(h)
    \/ QuerySucceeds(h)
    \/ PutFails(h)
    \/ PutSucceeds(h)
    \/ PostFails(h)
    \/ PostAnswered(h)

\* One request served on any history when every external call returns:
\* the urlfetch and datastore calls of a request have a deadline, and the
\* runtime schedules every handler that can run.
LiveSpec == HistInit /\ [][Next]_vars /\ \A h \in Handlers : WF_vars(Returns(h))

\* ---------------------------------------------------------------- claims
\* The last call of h's request.
LastCall(h) == io[h][Len(io[h])]

\* h's request made the call op, and it ended res.
Made(h, op, res) ==
    \E i \in 1..Len(io[h]) : io[h][i].op = op /\ io[h][i].res = res

\* h's request made the call op.
Called(h, op) == \E i \in 1..Len(io[h]) : io[h][i].op = op

\* The most recent entity of a history that is not empty, by capture time.
MostRecent(s) ==
    s[CHOOSE k \in DOMAIN s : \A j \in DOMAIN s : s[j].Updated <= s[k].Updated]

\* C1: write-before-notify.  A request POSTs to Slack only after its own
\* datastore.Put succeeded, as the call just before the POST; a request
\* whose Put failed has answered 500 and has made no call after the Put.
C1_WriteBeforeNotify ==
    \A h \in Handlers :
        /\ \A i \in 1..Len(io[h]) :
               io[h][i].op = "post" =>
                   /\ i > 1
                   /\ io[h][i - 1].op = "put"
                   /\ io[h][i - 1].res = "ok"
        /\ pc[h] = "send" => LastCall(h).op = "put" /\ LastCall(h).res = "ok"
        /\ Made(h, "put", "error") =>
               /\ pc[h] = "done"
               /\ status[h] = StatusInternalServerError
               /\ LastCall(h).op = "put"
               /\ ~Called(h, "post")

\* C1's case: while one request has written and posted, another's Put has
\* failed and it has answered 500.
C1_Witness ==
    \E h, g \in Handlers :
        /\ Made(h, "put", "ok") /\ Called(h, "post") /\ pc[h] = "done"
        /\ Made(g, "put", "error") /\ status[g] = StatusInternalServerError

\* C2: at most one notification per change.  With one request in flight at
\* a time, whatever fails, no two consecutive POSTs carry the same brief
\* text.
C2_AtMostOnce ==
    \A i \in 1..(Len(posts) - 1) : posts[i] # posts[i + 1]

\* C2's case: a brief text was posted once and a later request that saw the
\* same brief text returned after the query, with nothing more posted.
C2_Witness ==
    \E h \in Handlers :
        /\ Len(posts) = 1
        /\ cycles >= 2
        /\ pc[h] = "done"
        /\ Len(io[h]) = 2
        /\ LastCall(h).op = "query" /\ LastCall(h).res = "ok"
        /\ io[h][1].BriefText = posts[1]

\* h's query returns in this step, without an error.
QueryReturned(h) ==
    /\ pc[h] = "query"
    /\ pc'[h] # "query"
    /\ io'[h][Len(io'[h])].res = "ok"

\* C3: the decision on a history that is not empty.  When the query
\* returns, the request goes on to overwrite (and then to notify) exactly
\* when the brief text of the scoreboard's alert differs from the brief text
\* of the most recent entity; otherwise it returns 200 with nothing written
\* or posted.  Texts, times, scores and older entities have no say.
C3_Decision ==
    [][\A h \in Handlers :
        (QueryReturned(h) /\ DOMAIN store # {}) =>
            /\ pc'[h] \in {"overwrite", "done"}
            /\ (pc'[h] = "overwrite") <=>
                   (MostRecent(store).BriefText # jaysGame[h].Alerts.BriefText)
            /\ pc'[h] = "done" =>
                   /\ status'[h] = StatusOK
                   /\ store' = store
                   /\ posts' = posts]_vars

\* C3's case: a request has decided to overwrite although its alert has
\* the text of the most recent entity and the brief text of an older one.
C3_Witness ==
    \E h \in Handlers :
        /\ pc[h] = "overwrite"
        /\ Len(alerts[h]) >= 2
        /\ alerts[h][1].Text = jaysGame[h].Alerts.Text
        /\ alerts[h][1].BriefText # jaysGame[h].Alerts.BriefText
        /\ alerts[h][2].BriefText = jaysGame[h].Alerts.BriefText

\* The color for the jays' standing: green ahead, red behind, gray level.
Indicator(home, runs) ==
    LET jays == IF home THEN runs.Home ELSE runs.Away
        others == IF home THEN runs.Away ELSE runs.Home
    IN IF jays > others THEN "#00cc00"
       ELSE IF jays < others THEN "#e50000"
       ELSE "#808080"

\* C4: the empty history.  With one request in flight at a time: a query
\* that returns no entity always sends the request on to insert; the Put
\* then adds one entity under a new key and leaves the store with exactly
\* that one; and the POST that follows carries the brief text of that
\* entity, with the color of the jays' standing.
C4_EmptyHistory ==
    [][\A h \in Handlers :
        /\ (QueryReturned(h) /\ DOMAIN store = {}) => pc'[h] = "insert"
        /\ (pc[h] = "insert" /\ pc'[h] = "send") =>
               /\ DOMAIN store = {}
               /\ Cardinality(DOMAIN store') = 1
               /\ MostRecent(store').BriefText = jaysGame[h].Alerts.BriefText
               /\ MostRecent(store').Text = jaysGame[h].Alerts.Text
        /\ (pc[h] = "send" /\ pc'[h] = "done" /\ Len(alerts[h]) = 0) =>
               /\ store' = store
               /\ Cardinality(DOMAIN store) = 1
               /\ posts' = Append(posts, MostRecent(store).BriefText)
               /\ MostRecent(store).BriefText = jaysGame[h].Alerts.BriefText
               /\ io'[h][4].op = "post"
               /\ io'[h][4].Text = MostRecent(store).BriefText
               /\ io'[h][4].BriefText =
                      Indicator(areJaysHome[h], jaysGame[h].Runs)]_vars

\* C4's case: the first request found the history empty, inserted and
\* posted in green; the store holds the one entity with the posted text.
C4_Witness ==
    \E h \in Handlers :
        /\ pc[h] = "done" /\ status[h] = StatusOK
        /\ Len(io[h]) = 4
        /\ io[h][2].op = "query" /\ io[h][2].res = "ok" /\ io[h][2].BriefText = ""
        /\ io[h][3].op = "put" /\ io[h][3].res = "ok"
        /\ io[h][4].op = "post" /\ io[h][4].res = "2xx"
        /\ io[h][4].BriefText = "#00cc00"
        /\ Cardinality(DOMAIN store) = 1
        /\ posts = <<store[1].BriefText>>

\* C5: the unchanged brief text.  A request whose alert has the brief text
\* of the most recent entity returns 200 when the query returns, and none of
\* its steps writes or posts: the store, every field of every entity, and
\* the posts stay as they were, whatever the text and the time of the alert.
C5_NoChange ==
    [][\A h \in Handlers :
        /\ (pc[h] \in {"idle", "done"} /\ pc'[h] # pc[h]) =>
               store' = store /\ posts' = posts
        /\ (/\ QueryReturned(h)
            /\ DOMAIN store # {}
            /\ MostRecent(store).BriefText = jaysGame[h].Alerts.BriefText) =>
               /\ pc'[h] = "done"
               /\ status'[h] = StatusOK
               /\ store' = store
               /\ posts' = posts
               /\ ~Called(h, "put") /\ ~Called(h, "post")]_vars

\* C5's case: a request has returned 200 after its query; its alert had the
\* brief text of the most recent entity and another text.
C5_Witness ==
    \E h \in Handlers :
        /\ pc[h] = "done" /\ status[h] = StatusOK
        /\ Len(io[h]) = 2
        /\ io[h][2].op = "query" /\ io[h][2].res = "ok"
        /\ io[h][2].BriefText = io[h][1].BriefText
        /\ io[h][2].Text # io[h][1].Text
        /\ MostRecent(store).Text = io[h][2].Text
        /\ MostRecent(store).Updated < clock - 1

\* No game of the scoreboard has Toronto as home or as away city.
NoMatch(games) ==
    \A i \in 1..Len(games) :
        games[i].HomeTeamCity # "Toronto" /\ games[i].AwayTeamCity # "Toronto"

\* The loop finds no jays game in a scoreboard without one.
NoMatchNotFound ==
    \A games \in MLBResponse : NoMatch(games) => ~FindJays(games).found

\* A request is accepted in this step and its GET returns a scoreboard that
\* has no jays game; h has the response.
GotNoJaysGame(h) ==
    /\ pc[h] \in {"idle", "done"}
    /\ cycles' = cycles + 1
    /\ io'[h] = <<Call("get", "ok", NoAlert)>>
    /\ jaysGame'[h] = NoGame

\* C6: no Toronto game.  The loop finds no game in a scoreboard that names
\* Toronto nowhere, the empty one included, and the request that fetched it
\* returns 200 at once: no query, no Put, no POST, the store as it was.
C6_NotFound ==
    [][/\ NoMatchNotFound
       /\ \A h \in Handlers :
            GotNoJaysGame(h) =>
                /\ pc'[h] = "done"
                /\ status'[h] = StatusOK
                /\ store' = store
                /\ posts' = posts
                /\ clock' = clock]_vars

\* C6's case: a request has returned 200 with the GET as its only call,
\* while the store holds an entity.
C6_Witness ==
    \E h \in Handlers :
        /\ pc[h] = "done" /\ status[h] = StatusOK
        /\ io[h] = <<Call("get", "ok", NoAlert)>>
        /\ DOMAIN store # {}

\* g's last request wrote the brief text and then failed to deliver it: the
\* POST returned an error or a response that is not 2xx.
FailedToDeliver(g, brief) ==
    /\ pc[g] = "done"
    /\ Len(io[g]) > 0
    /\ LastCall(g).op = "post"
    /\ LastCall(g).res \in {"error", "non2xx"}
    /\ LastCall(g).Text = brief

\* The POST of h returns in this step and leaves the store as the Put left
\* it; a POST that returned an error is answered with 500.
NoRollback(h) ==
    (pc[h] = "send" /\ pc'[h] = "done") =>
        /\ store' = store
        /\ MostRecent(store) = jaysGame[h].Alerts
        /\ io'[h][Len(io'[h])].res = "error" =>
               status'[h] = StatusInternalServerError

\* h's request returns from its query in this step with nothing to do.
Skips(h) ==
    /\ pc'[h] = "done"
    /\ status'[h] = StatusOK
    /\ store' = store
    /\ posts' = posts

C8_ReadFails ==
    [][\A h \in Handlers :
        /\ (pc[h] = "query" /\ io'[h][Len(io'[h])].res = "error") =>
               /\ pc'[h] = "done"
               /\ store' = store
               /\ posts' = posts
        /\ Made(h, "query", "error")' =>
               /\ pc'[h] = "done"
               /\ status'[h] = StatusInternalServerError
               /\ Len(io'[h]) = 2
               /\ ~Called(h, "put")'
               /\ ~Called(h, "post")']_vars

\* C8's case: a request has answered 500 with a failed query as its last
\* call, on a history that is not empty.
C8_Witness ==
    \E h \in Handlers :
        /\ pc[h] = "done" /\ status[h] = StatusInternalServerError
        /\ Len(io[h]) = 2
        /\ LastCall(h).op = "query" /\ LastCall(h).res = "error"
        /\ DOMAIN store # {}

\* C9: a delivery that fails, by an error of the POST or by a response
\* that is not 2xx, is answered with 500.
C9_DeliveryErrorSurfaced ==
    \A h \in Handlers :
        (/\ pc[h] = "done"
         /\ Len(io[h]) > 0
         /\ LastCall(h).op = "post"
         /\ LastCall(h).res \in {"error", "non2xx"}) =>
            status[h] = StatusInternalServerError

\* C10: the round trip of the store.  With one request in flight at a
\* time, right after a Put that succeeded, by insert or by overwrite, on a
\* history of any length, the first entity of the query is the one written:
\* it is the most recent, and it has the brief text of the request's alert.
C10_RoundTrip ==
    \A h \in Handlers :
        pc[h] = "send" =>
            /\ QueryAlerts(store)[1] = jaysGame[h].Alerts
            /\ QueryAlerts(store)[1] = MostRecent(store)
            /\ MostRecent(store).BriefText = LastCall(h).BriefText

\* C10's case: a Put has overwritten the most recent of several entities,
\* which does not have the greatest key.
C10_Witness ==
    \E h \in Handlers :
        /\ pc[h] = "send"
        /\ Len(keys[h]) >= 2
        /\ keys[h][1] < keys[h][2]
        /\ store[keys[h][1]].BriefText = jaysGame[h].Alerts.BriefText
        /\ alerts[h][1].BriefText # jaysGame[h].Alerts.BriefText

\* The run counts the color is computed for.
Counts == [Home : (0 - MaxRuns)..MaxRuns, Away : (0 - MaxRuns)..MaxRuns]

\* The color is one of the three, and the one the counts and the role ask
\* for: gray level, and for the home role green with more home runs and red
\* with fewer, for the away role green with more away runs and red with
\* fewer.
ColorExact ==
    \A home \in BOOLEAN : \A runs \in Counts :
        /\ Color(home, runs) \in {"#00cc00", "#e50000", "#808080"}
        /\ (Color(home, runs) = "#808080") <=> (runs.Home = runs.Away)
        /\ (Color(home, runs) = "#00cc00") <=>
               (IF home THEN runs.Home > runs.Away ELSE runs.Away > runs.Home)
        /\ (Color(home, runs) = "#e50000") <=>
               (IF home THEN runs.Home < runs.Away ELSE runs.Away < runs.Home)

\* C11: the category.  For all counts up to MaxRuns, of either sign, and
\* both roles the color is exactly one of green, red and gray, as the
\* counts ask; 3-1 at home is green, 1-3 at home is red, 2-2 away is gray;
\* and the attachment a request is about to post has the color of its game.
C11_Category ==
    /\ ColorExact
    /\ Color(TRUE, [Home |-> 3, Away |-> 1]) = "#00cc00"
    /\ Color(TRUE, [Home |-> 1, Away |-> 3]) = "#e50000"
    /\ Color(FALSE, [Home |-> 2, Away |-> 2]) = "#808080"
    /\ \A h \in Handlers :
           pc[h] = "send" =>
               Attachment(h).Color = Indicator(areJaysHome[h], jaysGame[h].Runs)

\* C11's case: a request is about to post in green for the away role, the
\* away team being ahead.
C11_Witness ==
    \E h \in Handlers :
        /\ pc[h] = "send"
        /\ ~areJaysHome[h]
        /\ jaysGame[h].Runs.Away > jaysGame[h].Runs.Home
        /\ Attachment(h).Color = "#00cc00"

\* h's last request did not get a scoreboard: the location did not load
\* (no call made), the GET failed or its body did not decode.
FetchFailed(h) ==
    /\ pc[h] # "idle"
    /\ \/ io[h] = <<>>
       \/ io[h][1].res \in {"error", "undecodable"}

\* C12: a failed fetch.  The step that accepts a request leaves the store,
\* the clock and the posts as they are, and when the fetch or the decoding
\* fails that step is the request's last: it answers 500 having made no
\* call but the GET, so no query, no Put and no POST.
C12_FetchFails ==
    [][/\ cycles' # cycles => UNCHANGED <<store, clock, posts>>
       /\ \A h \in Handlers :
              FetchFailed(h)' =>
                  /\ pc'[h] = "done"
                  /\ status'[h] = StatusInternalServerError
                  /\ Len(io'[h]) <= 1
                  /\ ~Called(h, "query")' /\ ~Called(h, "put")'
                  /\ ~Called(h, "post")']_vars

\* C12's case: a request whose body did not decode answered 500 over a
\* store that holds an entity, after the one post of the other request.
C12_Witness ==
    /\ DOMAIN store # {}
    /\ Len(posts) = 1
    /\ \E h \in Handlers :
           /\ pc[h] = "done"
           /\ status[h] = StatusInternalServerError
           /\ io[h] = <<Call("get", "undecodable", NoAlert)>>

\* The key of the most recent entity of a history that is not empty.
MostRecentKey(s) == CHOOSE k \in DOMAIN s : s[k] = MostRecent(s)

\* C13: overwrite in place.  The Put of a request that read a history that
\* is not empty replaces the most recent entity under that entity's key:
\* the keys of the store are the same, the entity under that key is the
\* request's alert, and every other entity is as it was.  No step of any
\* request removes a key from the store.
C13_OverwriteInPlace ==
    [][/\ DOMAIN store \subseteq DOMAIN store'
       /\ \A h \in Handlers :
              (pc[h] = "overwrite" /\ pc'[h] = "send") =>
                  /\ DOMAIN store' = DOMAIN store
                  /\ store'[MostRecentKey(store)] = jaysGame[h].Alerts
                  /\ \A j \in DOMAIN store \ {MostRecentKey(store)} :
                         store'[j] = store[j]]_vars

\* C13's case: a request that read two entities, the most recent under
\* the lower key, has overwritten that one and left the older one.
C13_Witness ==
    \E h \in Handlers :
        /\ pc[h] = "send"
        /\ Made(h, "put", "ok")
        /\ Len(alerts[h]) = 2
        /\ keys[h] = <<1, 2>>
        /\ DOMAIN store = {1, 2}
        /\ store[1] = jaysGame[h].Alerts
        /\ store[1] # alerts[h][1]
        /\ store[2] = alerts[h][2]

\* While no request is about to post, what was posted last is the brief
\* text of the most recent entity.
Remembered ==
    ((\A h \in Handlers : pc[h] # "send") /\ posts # <<>>) =>
        /\ DOMAIN store # {}
        /\ MostRecent(store).BriefText = posts[Len(posts)]

\* C14: notified and remembered.  Under a serial trigger every POST, failed
\* or answered, carries exactly the brief text of the alert the request took
\* from the scoreboard, and at that moment the most recent entity of the
\* store has that brief text; the POST leaves the store alone, so between
\* requests the last post is the brief text the store remembers.
C14_NotifiedIsRemembered ==
    [][/\ \A h \in Handlers :
              (pc[h] = "send" /\ pc'[h] = "done") =>
                  /\ posts' = Append(posts, jaysGame[h].Alerts.BriefText)
                  /\ io[h][1].BriefText = jaysGame[h].Alerts.BriefText
                  /\ DOMAIN store # {}
                  /\ MostRecent(store).BriefText = jaysGame[h].Alerts.BriefText
                  /\ store' = store
       /\ Remembered']_vars

\* C14's case: a second, different brief text was posted with an error of
\* the POST, and the store remembers it.
C14_Witness ==
    /\ Len(posts) = 2
    /\ posts[1] # posts[2]
    /\ DOMAIN store # {}
    /\ MostRecent(store).BriefText = posts[2]
    /\ \E h \in Handlers :
           /\ pc[h] = "done"
           /\ Made(h, "post", "error")
           /\ io[h][1].BriefText = posts[2]

\* The same brief text was posted twice in a row.
DoubleNotification ==
    \E i \in 1..(Len(posts) - 1) : posts[i] = posts[i + 1]

\* C15: the double notification.  Nothing keeps two requests apart: under
\* a trigger that does not wait, two requests that both query before either
\* writes both post the same brief text.  The same brief text is posted
\* twice in a row under such a trigger only, never under a serial one, and
\* every request that posts had read a latest brief text other than its own.
C15_DoubleOnlyByOverlap ==
    /\ DoubleNotification => ~trigger.serial
    /\ \A h \in Handlers :
           Called(h, "post") => io[h][2].BriefText # io[h][1].BriefText

\* C15's case: two requests took the same brief text from the scoreboard,
\* both read the empty history, both wrote and both posted.
C15_Witness ==
    /\ ~trigger.serial
    /\ Len(posts) = 2
    /\ posts[1] = posts[2]
    /\ \A h \in Handlers :
           /\ pc[h] = "done"
           /\ Len(io[h]) = 4
           /\ io[h][1].BriefText = posts[1]
           /\ io[h][2] = Call("query", "ok", NoAlert)
           /\ io[h][3].res = "ok"
           /\ io[h][4].op = "post"

\* The results of a call that are errors of the step: a failed call, a body
\* that does not decode, a response of Slack that is not a 2xx.
StepErrors == {"error", "undecodable", "non2xx"}

\* h's request met an error: the location did not load, or a call erred.
Erred(h) ==
    \/ pc[h] = "done" /\ io[h] = <<>>
    \/ \E i \in 1..Len(io[h]) : io[h][i].res \in StepErrors

\* C16: errors are terminal.  An error of a step is the last thing the
\* request does: no call follows it, no call is made twice, and the request
\* answers 500; a request none of whose steps erred answers 200.  This is
\* the claim as stated, and the handler breaks it: it answers 200 when
\* Slack answers the POST with a status that is not a 2xx.
C16_ErrorsAreTerminal ==
    \A h \in Handlers :
        /\ \A i \in 1..(Len(io[h]) - 1) : io[h][i].res \notin StepErrors
        /\ \A i, j \in 1..Len(io[h]) : i # j => io[h][i].op # io[h][j].op
        /\ Erred(h) => pc[h] = "done"
        /\ pc[h] = "done" =>
               status[h] = (IF Erred(h) THEN StatusInternalServerError
                                        ELSE StatusOK)

\* Toronto is the home or the away city of the game.
IsJays(game) == game.HomeTeamCity = "Toronto" \/ game.AwayTeamCity = "Toronto"

\* The place of the first Toronto game of a scoreboard that has one.
FirstJays(games) ==
    CHOOSE i \in 1..Len(games) :
        IsJays(games[i]) /\ \A j \in 1..(i - 1) : ~IsJays(games[j])

\* On every scoreboard with a Toronto game the loop finds the first one,
\* whatever comes after it, with the home role when Toronto is its home
\* city, also when it is its away city too, and the away role otherwise.
FirstMatchSelected ==
    \A games \in MLBResponse :
        ~NoMatch(games) =>
            LET first == games[FirstJays(games)]
                r == FindJays(games)
            IN /\ r.found
               /\ r.game = first
               /\ r.home <=> (first.HomeTeamCity = "Toronto")
               /\ ~r.home <=> (first.HomeTeamCity # "Toronto" /\
                               first.AwayTeamCity = "Toronto")

\* C17: the extractor.  The loop selects the first game in the order of
\* the scoreboard whose home or away city is Toronto, never a later one;
\* the role is home when the home city matched, away otherwise, and home
\* when both cities are Toronto.  The game and the role a request works on
\* are of that kind.
C17_FirstMatch ==
    /\ FirstMatchSelected
    /\ \A h \in Handlers :
           pc[h] \in {"query", "insert", "overwrite", "send"} =>
               /\ IsJays(jaysGame[h])
               /\ areJaysHome[h] <=> (jaysGame[h].HomeTeamCity = "Toronto")

\* C17's case: a request works on a game with Toronto as both cities, in
\* the home role, and the other on a game with Toronto away, in the away
\* role.
C17_Witness ==
    /\ \E h \in Handlers :
           /\ pc[h] = "query"
           /\ jaysGame[h].HomeTeamCity = "Toronto"
           /\ jaysGame[h].AwayTeamCity = "Toronto"
           /\ areJaysHome[h]
    /\ \E h \in Handlers :
           /\ pc[h] = "send"
           /\ jaysGame[h].HomeTeamCity = "Boston"
           /\ jaysGame[h].AwayTeamCity = "Toronto"
           /\ ~areJaysHome[h]

\* The calls of a request in the order of the handler.
CallOrder == <<"get", "query", "put", "post">>

\* The calls h's request has made are the first calls of the handler's
\* order, each made once.
InOrder(h) ==
    /\ Len(io[h]) <= Len(CallOrder)
    /\ \A i \in 1..Len(io[h]) : io[h][i].op = CallOrder[i]

\* C18: termination.  When every external call returns, every request
\* that was accepted returns; and a request makes at most one GET, one
\* query, one Put and one POST, in that order.
C18_Terminates ==
    /\ \A h \in Handlers : (pc[h] \notin {"idle", "done"}) ~> (pc[h] = "done")
    /\ [](\A h \in Handlers : InOrder(h))

\* C18's case: a request has returned after its four calls, the Put an
\* overwrite on a history of two entities.
C18_Witness ==
    \E h \in Handlers :
        /\ pc[h] = "done"
        /\ Len(io[h]) = 4
        /\ InOrder(h)
        /\ io[h][2].BriefText # ""
        /\ Cardinality(DOMAIN store) = 2

\* C19: the single slot.  From the empty store, under a serial trigger and
\* whatever fails, the store never holds more than one entity: a request
\* inserts only into the empty store and overwrites the one entity there
\* is.
C19_SingleSlot ==
    /\ Cardinality(DOMAIN store) <= 1
    /\ \A h \in Handlers :
           /\ pc[h] = "insert" => DOMAIN store = {}
           /\ pc[h] = "overwrite" => DOMAIN store = {keys[h][1]}

\* C19's case: three requests have written and posted, the last with an
\* error of the POST, and the store holds one entity.
C19_Witness ==
    /\ cycles = MaxCycles
    /\ Len(posts) = MaxCycles
    /\ Cardinality(DOMAIN store) = 1
    /\ \E h \in Handlers : pc[h] = "done" /\ Made(h, "post", "error")

\* C20: the race on the first insert.  Every Put of a request that read
\* the empty history adds one entity under a key the store did not have
\* and leaves the others alone, so two requests that both read the empty
\* history leave two entities; the store comes to hold two entities under
\* a trigger that does not wait only, never under a serial one.
C20_TwoOnlyByOverlap ==
    [][/\ Cardinality(DOMAIN store') >= 2 => ~trigger.serial
       /\ \A h \in Handlers :
              (pc[h] = "insert" /\ pc'[h] = "send") =>
                  /\ alerts[h] = <<>>
                  /\ io[h][2] = Call("query", "ok", NoAlert)
                  /\ Cardinality(DOMAIN store') = Cardinality(DOMAIN store) + 1
                  /\ \A k \in DOMAIN store : store'[k] = store[k]
                  /\ \E k \in DOMAIN store' \ DOMAIN store :
                         store'[k] = jaysGame[h].Alerts]_vars

\* C20's case: two requests with different brief texts both read the
\* empty history and both inserted: the store holds two entities.
C20_Witness ==
    /\ ~trigger.serial
    /\ Cardinality(DOMAIN store) = 2
    /\ \E h, g \in Handlers :
           /\ io[h][1].BriefText # io[g][1].BriefText
           /\ \A f \in {h, g} :
                  /\ Len(io[f]) >= 3
                  /\ io[f][2] = Call("query", "ok", NoAlert)
                  /\ io[f][3].op = "put" /\ io[f][3].res = "ok"
                  /\ \E k \in DOMAIN store :
                         store[k].BriefText = io[f][1].BriefText

====
